---- MODULE Spec2Model ----
(***************************************************************************)
(* Model of zef-core/src/updater.rs: the quorum broadcaster                *)
(* (communicate_with_quorum) and the per-validator ValidatorUpdater.       *)
(***************************************************************************)
EXTENDS Integers, Sequences, FiniteSets, TLC

(***************************************************************************)
(* Bounds of the model.                                                    *)
(***************************************************************************)
NumValidators == 3
MaxClients == 3
MaxWeight == 2
MaxThreshold == 3
MaxSeq == 2
MaxDepth == 2
MaxRetries == 2
MaxSenders == 1

(***************************************************************************)
(* Value domains.                                                          *)
(***************************************************************************)
ValidatorNames == 1..NumValidators
Values == {"va", "vb"}
Errors == {"InactiveChain", "OtherError"}

\* Result<V, Error> as produced by one validator call.
OkResult(v) == <<"Ok", v>>
ErrResult(e) == <<"Err", e>>
Results == {OkResult(v) : v \in Values} \cup {ErrResult(e) : e \in Errors}

\* Result<Vec<V>, Option<Error>> of communicate_with_quorum; Running = not returned.
Running == <<"Running">>
ReturnOk(vs) == <<"Ok", vs>>
ReturnErrSome(e) == <<"ErrSome", e>>
ReturnErrNone == <<"ErrNone">>

VARIABLES
    \* ---- communicate_with_quorum ----
    validator_clients,   \* the slice of (name, client): sequence of names, client = position
    weight,              \* committee.weight(name)
    quorum_threshold,    \* committee.quorum_threshold()
    validity_threshold,  \* committee.validity_threshold()
    qpc,                 \* "start" | "loop" | "done"
    responses,           \* FuturesUnordered: positions whose call is in flight
    invoked,             \* positions for which execute(name, client) was invoked
    values,              \* Vec<V>
    value_score,
    error_scores,        \* HashMap<Error, weight>, 0 = no entry
    outcome,             \* the returned Result, or Running
    consumed,            \* history: per position, the result the loop took from the stream
    last_consumed        \* history: the position the loop took last (0 = none yet)

VARIABLE
    \* the result that execute(name, client) resolves to, where it depends on the
    \* name only (a fixed assignment of one result to each validator)
    execute

qvars == <<validator_clients, weight, quorum_threshold, validity_threshold, qpc,
           responses, invoked, values, value_score, error_scores, outcome, consumed,
           last_consumed, execute>>

VARIABLES
    \* ---- ValidatorUpdater (one session: name, client, store, delay, retries) ----
    retries,             \* self.retries
    stack,               \* the async call chain, innermost last; <<>> = top-level call returned
    ret,                 \* value returned by the call that finished last
    sc,                  \* locals of send_certificate
    sbp,                 \* locals of send_block_proposal
    sci,                 \* locals of send_chain_information
    rcv,                 \* locals of send_chain_information_as_a_receiver
    upd,                 \* locals of send_chain_update
    auth_failed,         \* history: a response or a vote failed check(self.name)
    calls_after_failure  \* history: calls made to self.client after such a failure

uvars == <<retries, stack, ret, sc, sbp, sci, rcv, upd, auth_failed, calls_after_failure>>

vars == <<qvars, uvars>>

\* A position whose result the loop has not taken.
NotConsumed == <<>>

RECURSIVE SumOver(_, _)
\* Sum of f[x] over the finite set S.
SumOver(S, f) ==
    IF S = {} THEN 0
    ELSE LET x == CHOOSE y \in S : TRUE IN f[x] + SumOver(S \ {x}, f)

\* Nondecreasing sequences of names: one representative per multiset of clients
\* (the FuturesUnordered yields completions in arrival order, whatever the slice order).
IsSorted(s) == \A i \in 1..(Len(s) - 1) : s[i] <= s[i + 1]

Range(s) == {s[i] : i \in DOMAIN s}

\* One representative per list of clients up to the order of the list and the
\* names of the validators, which the code uses as keys only: the names listed
\* are 1..k, in nondecreasing order.
IsCanonical(s) == IsSorted(s) /\ Range(s) = 1..Cardinality(Range(s))

(***************************************************************************)
(* communicate_with_quorum                                                 *)
(***************************************************************************)

\* Mutation of Launchable: zero-weight validators are launched too.
LaunchableAnyWeight(name) == weight[name] >= 0

\* if committee.weight(name) > 0 { Some(..) } else { None }
Launchable(name) == weight[name] > 0

\* Mutation of QuorumReached: off by one.
QuorumReachedOffByOne(score) == score + 1 >= quorum_threshold

\* if value_score >= committee.quorum_threshold()
QuorumReached(score) == score >= quorum_threshold

\* if *entry >= committee.validity_threshold()
ValidityReached(score) == score >= validity_threshold

\* Mutation of ErrorKey: every error shares one entry.
ErrorKeyShared(err) == "InactiveChain"

\* error_scores.entry(err.clone()): the key is the error value itself
ErrorKey(err) == err

\* Mutation of CanPoll: the loop keeps polling after it returned.
CanPollAfterReturn == qpc \in {"loop", "done"}

\* while let Some(..) = responses.next().await: the loop is running
CanPoll == qpc = "loop"

\* Mutation of Exhausted: the stream is taken to be empty one call early.
ExhaustedEarly == Cardinality(responses) <= 1

\* responses.next() yields None: no future is left in the FuturesUnordered
Exhausted == responses = {}

\* lines 40-57: build the FuturesUnordered from the filtered clients, init accumulators
Launch ==
    /\ qpc = "start"
    /\ responses' = {i \in DOMAIN validator_clients : Launchable(validator_clients[i])}
    /\ invoked' = responses'
    /\ values' = <<>>
    /\ value_score' = 0
    /\ error_scores' = [e \in Errors |-> 0]
    /\ qpc' = "loop"
    /\ UNCHANGED <<uvars, execute, validator_clients, weight, quorum_threshold, validity_threshold,
                   outcome, consumed, last_consumed>>

\* lines 58-78: one iteration of the loop on the completion (name, result) of the
\* call at position i
Complete(i, result) ==
    LET name == validator_clients[i] IN
    /\ responses' = responses \ {i}
    /\ consumed' = [consumed EXCEPT ![i] = result]
    /\ last_consumed' = i
    /\ IF result[1] = "Ok"
       THEN /\ values' = Append(values, result[2])
            /\ value_score' = value_score + weight[name]
            /\ error_scores' = error_scores
            /\ IF QuorumReached(value_score')
               THEN outcome' = ReturnOk(values') /\ qpc' = "done"
               ELSE outcome' = outcome /\ qpc' = qpc
       ELSE LET key == ErrorKey(result[2]) IN
            /\ error_scores' = [error_scores EXCEPT ![key] = @ + weight[name]]
            /\ values' = values
            /\ value_score' = value_score
            /\ IF ValidityReached(error_scores'[key])
               THEN outcome' = ReturnErrSome(result[2]) /\ qpc' = "done"
               ELSE outcome' = outcome /\ qpc' = qpc

\* lines 58-78: the stream yields the completion of a call, with any result
HandleCompletion ==
    /\ CanPoll
    /\ \E i \in responses, result \in Results : Complete(i, result)
    /\ UNCHANGED <<uvars, execute, validator_clients, weight, quorum_threshold,
                   validity_threshold, invoked>>

\* lines 58-78: the stream yields the completion of a call, in any order, with the
\* result assigned to its validator
HandleAssignedCompletion ==
    /\ CanPoll
    /\ \E i \in responses : Complete(i, execute[validator_clients[i]])
    /\ UNCHANGED <<uvars, execute, validator_clients, weight, quorum_threshold,
                   validity_threshold, invoked>>

\* lines 58, 80-81: the stream is exhausted, return Err(None)
ReturnUndecided ==
    /\ qpc = "loop"
    /\ Exhausted
    /\ outcome' = ReturnErrNone
    /\ qpc' = "done"
    /\ UNCHANGED <<uvars, execute, validator_clients, weight, quorum_threshold, validity_threshold,
                   responses, invoked, values, value_score, error_scores, consumed, last_consumed>>

\* After the return the FuturesUnordered is dropped: a call still in flight ends
\* without being polled by the loop.
StragglerCompletes ==
    /\ qpc = "done"
    /\ \E i \in responses : responses' = responses \ {i}
    /\ UNCHANGED <<uvars, execute, validator_clients, weight, quorum_threshold, validity_threshold, qpc,
                   invoked, values, value_score, error_scores, outcome, consumed, last_consumed>>

(***************************************************************************)
(* ValidatorUpdater: data                                                  *)
(***************************************************************************)

\* SequenceNumber, with MaxSeq standing for the largest representable number.
SeqNums == 0..MaxSeq

\* SequenceNumber::try_add_one: fails on overflow.
TryAddOne(n) == IF n < MaxSeq THEN <<"Ok", n + 1>> ELSE <<"Err", "SequenceOverflow">>

\* Child indices of the chains considered: the last one that try_add_one accepts,
\* and the one on which it overflows.
ChildIndexes == {MaxSeq - 1, MaxSeq}

\* ChainId: the root is <<>>, the child number k of c is Append(c, k).
ChainIds == UNION {[1..d -> ChildIndexes] : d \in 0..MaxDepth}

\* ChainId::split: (parent, child index), or None for a root.
Split(c) == IF Len(c) = 0 THEN <<"None">> ELSE <<"Some", SubSeq(c, 1, Len(c) - 1), c[Len(c)]>>

\* Chains a chain update is asked for, and sender chains of a received index.
ShallowChainIds == {c \in ChainIds : Len(c) <= 1}

\* Errors a validator answers with.
ValidatorErrors == {"InactiveChain", "RetriableValidationError", "OtherError"}

\* ChainInfoResponse: signer_ok is what check(name) will find; the rest is response.info.
Responses == [signer_ok : BOOLEAN, active : BOOLEAN, next_sequence_number : SeqNums,
              pending : {"none", "vote_ok", "vote_bad"}]

\* response.info
Info(r) == [active |-> r.active, next_sequence_number |-> r.next_sequence_number,
            pending |-> r.pending]

\* ChainInfoResponse::check(name)
Check(r) == r.signer_ok

\* Vote::check(name) on info.manager.pending()
VoteCheck(info) == info.pending = "vote_ok"

\* ChainState::is_retriable_validation_error(&request, &e)
IsRetriableValidationError(e) == e = "RetriableValidationError"

\* Result<ChainInfoResponse, Error> of a call to self.client.
Answers == {<<"Ok", r>> : r \in Responses} \cup {<<"Err", e>> : e \in ValidatorErrors}

\* The answers to handle_certificate and handle_block_proposal: of their info the
\* callers read manager.pending() only (lines 260, 272), the other fields are
\* left at one value.
SubmitAnswers ==
    {a \in Answers : a[1] = "Ok" => (a[2].active /\ a[2].next_sequence_number = 0)}

\* How an answer is remembered in the history of a submission loop.
AnswerTag(a) == IF a[1] = "Err" THEN a[2] ELSE IF Check(a[2]) THEN "Ok" ELSE "OkBadSigner"

Certificates == [chain_id : ChainIds, sequence_number : SeqNums, validated : BOOLEAN]

ProposalKinds == {"SubmitRequestForConfirmation", "SubmitRequestForValidation"}

\* CommunicateAction; seq is the sequence number the action carries.
CommunicateActions ==
    [kind : ProposalKinds \cup {"AdvanceToNextSequenceNumber"}, seq : SeqNums, validated : {TRUE}]
    \cup [kind : {"FinalizeRequest"}, seq : SeqNums, validated : BOOLEAN]

NoRet == <<"None">>
Ok(v) == <<"Ok", v>>
Err(e) == <<"Err", e>>
Panic == <<"Panic">>

\* What Ok carries besides a chain info: () and the Option<Vote> of send_chain_update.
Unit == [unit |-> TRUE]

NoVote == [some |-> FALSE]

SomeVote(vote) == [some |-> TRUE, vote |-> vote]
IsOk(r) == r[1] = "Ok"
IsErr(r) == r[1] = "Err"
IsErrOf(r, e) == r[1] = "Err" /\ r[2] = e

Top == stack[Len(stack)]
Popped == SubSeq(stack, 1, Len(stack) - 1)
Executing(fn) == stack # <<>> /\ Top = fn

scIdle == [pc |-> "idle", certificate |-> <<>>, retryable |-> FALSE, count |-> 0,
           answers |-> <<>>, sleeps |-> 0, unchecked_read |-> FALSE]
sbpIdle == [pc |-> "idle", count |-> 0, answers |-> <<>>, sleeps |-> 0,
            unchecked_read |-> FALSE]
sciIdle == [pc |-> "idle", chain_id |-> <<>>, target |-> 0, jobs |-> <<>>, job |-> 0,
            number |-> 0, log_len |-> 0, unchecked_read |-> FALSE,
            arg_chain_id |-> <<>>, arg_target |-> 0, queries |-> 0, walk |-> "none",
            reported |-> 0, sent |-> <<>>, acked |-> 0]
rcvIdle == [pc |-> "idle", chain_id |-> <<>>, visited |-> {}]
updIdle == [pc |-> "idle", chain_id |-> <<>>, action |-> <<>>, target |-> 0,
            proposals |-> 0, receiver_syncs |-> 0, certificates |-> 0,
            first_result |-> "none", second_result |-> "none", extracted |-> "n/a"]

\* Entry of send_certificate(certificate, retryable): let mut count = 0
scEntry(cert, retryable) ==
    [pc |-> "submit", certificate |-> cert, retryable |-> retryable, count |-> 0,
     answers |-> <<>>, sleeps |-> 0, unchecked_read |-> FALSE]

\* Entry of send_block_proposal(proposal): let mut count = 0
sbpEntry == [pc |-> "submit", count |-> 0, answers |-> <<>>, sleeps |-> 0,
             unchecked_read |-> FALSE]

\* Entry of send_chain_information(chain_id, target): let mut jobs = Vec::new()
sciEntry(chain_id, target) ==
    [pc |-> "query", chain_id |-> chain_id, target |-> target, jobs |-> <<>>, job |-> 0,
     number |-> 0, log_len |-> 0, unchecked_read |-> FALSE,
     arg_chain_id |-> chain_id, arg_target |-> target, queries |-> 0, walk |-> "walking",
     reported |-> 0, sent |-> <<>>, acked |-> 0]

\* Entry of send_chain_information_as_a_receiver(chain_id)
rcvEntry(chain_id) == [pc |-> "read_chain", chain_id |-> chain_id, visited |-> {}]

\* Entry of send_chain_update(chain_id, action)
updEntry(chain_id, action) ==
    [pc |-> "start", chain_id |-> chain_id, action |-> action, target |-> 0,
     proposals |-> 0, receiver_syncs |-> 0, certificates |-> 0,
     first_result |-> "none", second_result |-> "none", extracted |-> "n/a"]

\* What the arm `Ok(response) => { response.check(self.name)?; return Ok(response.info) }`
\* does with a response, in order.
SubmitResponseUses == <<"check", "info">>

\* What the arms `Ok(response) if response.info.manager.is_active() => { response.check(..)?`
\* and `Ok(response) => { response.check(..)?` do with a response, in order: the
\* guard of the first arm is evaluated on every Ok(response).
QueryResponseUses == <<"info.manager.is_active", "check", "info.next_sequence_number">>

\* A field of the response is used before check in the order of uses given.
UsedBeforeCheck(uses) == \E i \in DOMAIN uses :
    uses[i] # "check" /\ \A j \in 1..(i - 1) : uses[j] # "check"

\* History of a call to self.client answered by a.
ClientCalled(a) ==
    /\ calls_after_failure' = IF auth_failed THEN calls_after_failure + 1 ELSE calls_after_failure
    /\ auth_failed' = (auth_failed \/ (IsOk(a) /\ ~Check(a[2])))

\* History of the extraction of the pending vote of info.
VoteExtracted(info) ==
    /\ auth_failed' = (auth_failed \/ info.pending = "vote_bad")
    /\ UNCHANGED calls_after_failure

(***************************************************************************)
(* send_certificate                                                        *)
(***************************************************************************)

\* Mutation of CertificateRetryAllowed: one retry too many.
CertificateRetryOneMore == sc.retryable /\ sc.count <= retries

\* Mutation of CertificateRetryAllowed: one retry too few.
CertificateRetryShort == sc.retryable /\ sc.count + 1 < retries

\* Err(Error::InactiveChain(_)) if retryable && count < self.retries
CertificateRetryAllowed == sc.retryable /\ sc.count < retries

\* Mutation of IsInactiveChain: every error is taken for InactiveChain.
IsAnyError(e) == TRUE

\* the pattern Error::InactiveChain(_)
IsInactiveChain(e) == e = "InactiveChain"

\* Mutation of ResponseAccepted: the response is trusted without check.
ResponseAcceptedUnchecked(r) == TRUE

\* response.check(self.name)? passed
ResponseAccepted(r) == Check(r)

\* lines 96-112: handle_certificate and the match on its answer
SendCertificateSubmit ==
    /\ Executing("send_certificate")
    /\ sc.pc = "submit"
    /\ \E a \in SubmitAnswers :
        LET logged == [sc EXCEPT !.answers = Append(@, AnswerTag(a)),
                                 !.unchecked_read =
                                    @ \/ (IsOk(a) /\ UsedBeforeCheck(SubmitResponseUses))] IN
        /\ ClientCalled(a)
        /\ IF IsOk(a)
           THEN /\ sc' = [logged EXCEPT !.pc = "returned"]
                /\ stack' = Popped
                /\ ret' = IF ResponseAccepted(a[2]) THEN Ok(Info(a[2])) ELSE Err("CheckFailed")
           ELSE IF IsInactiveChain(a[2]) /\ CertificateRetryAllowed
           THEN /\ sc' = [logged EXCEPT !.pc = "sleep"]
                /\ UNCHANGED <<stack, ret>>
           ELSE /\ sc' = [logged EXCEPT !.pc = "returned"]
                /\ stack' = Popped
                /\ ret' = Err(a[2])
    /\ UNCHANGED <<qvars, retries, sbp, sci, rcv, upd>>

\* lines 104-106: tokio::time::sleep(self.delay).await; count += 1; continue
SendCertificateSleep ==
    /\ Executing("send_certificate")
    /\ sc.pc = "sleep"
    /\ sc' = [sc EXCEPT !.pc = "submit", !.count = @ + 1, !.sleeps = @ + 1]
    /\ UNCHANGED <<qvars, retries, stack, ret, sbp, sci, rcv, upd, auth_failed, calls_after_failure>>

(***************************************************************************)
(* send_block_proposal                                                     *)
(***************************************************************************)

\* Mutation of ProposalRetryAllowed: one retry too few.
ProposalRetryShort == sbp.count + 1 < retries

\* Err(Error::InactiveChain(_)) if count < self.retries
ProposalRetryAllowed == sbp.count < retries

\* lines 122-138: handle_block_proposal and the match on its answer
SendBlockProposalSubmit ==
    /\ Executing("send_block_proposal")
    /\ sbp.pc = "submit"
    /\ \E a \in SubmitAnswers :
        LET logged == [sbp EXCEPT !.answers = Append(@, AnswerTag(a)),
                                  !.unchecked_read =
                                     @ \/ (IsOk(a) /\ UsedBeforeCheck(SubmitResponseUses))] IN
        /\ ClientCalled(a)
        /\ IF IsOk(a)
           THEN /\ sbp' = [logged EXCEPT !.pc = "returned"]
                /\ stack' = Popped
                /\ ret' = IF ResponseAccepted(a[2]) THEN Ok(Info(a[2])) ELSE Err("CheckFailed")
           ELSE IF IsInactiveChain(a[2]) /\ ProposalRetryAllowed
           THEN /\ sbp' = [logged EXCEPT !.pc = "sleep"]
                /\ UNCHANGED <<stack, ret>>
           ELSE /\ sbp' = [logged EXCEPT !.pc = "returned"]
                /\ stack' = Popped
                /\ ret' = Err(a[2])
    /\ UNCHANGED <<qvars, retries, sc, sci, rcv, upd>>

\* lines 130-132: tokio::time::sleep(self.delay).await; count += 1; continue
SendBlockProposalSleep ==
    /\ Executing("send_block_proposal")
    /\ sbp.pc = "sleep"
    /\ sbp' = [sbp EXCEPT !.pc = "submit", !.count = @ + 1, !.sleeps = @ + 1]
    /\ UNCHANGED <<qvars, retries, stack, ret, sc, sci, rcv, upd, auth_failed, calls_after_failure>>

(***************************************************************************)
(* send_chain_information                                                  *)
(***************************************************************************)

\* A job is <<chain_id, initial_sequence_number, target_sequence_number, retryable>>.
JobChain(j) == j[1]
JobInitial(j) == j[2]
JobTarget(j) == j[3]
JobRetryable(j) == j[4]

\* read_chain_or_default: the confirmed_log length of the chain read, or a storage error.
ChainReads == {Ok(n) : n \in SeqNums} \cup {Err("StorageError")}

\* read_certificate: the certificate, or a storage error.
CertificateReads == {Ok("certificate"), Err("StorageError")}

\* lines 187-203: head of the inner for loop with the locals s, up to the next await
ReplayFrom(s) ==
    IF s.number < JobTarget(s.jobs[s.job])
    THEN IF s.number < s.log_len
         THEN \* confirmed_log.get(number) is Some(key): read_certificate is next
              /\ sci' = [s EXCEPT !.pc = "read_cert"]
              /\ ret' = NoRet
              /\ UNCHANGED stack
         ELSE \* .expect("certificate should be known locally") panics
              /\ sci' = [s EXCEPT !.pc = "panicked"]
              /\ ret' = Panic
              /\ stack' = <<>>
    ELSE IF s.job > 1
         THEN \* next job of jobs.into_iter().rev()
              /\ sci' = [s EXCEPT !.pc = "read_chain", !.job = @ - 1]
              /\ ret' = NoRet
              /\ UNCHANGED stack
         ELSE \* Ok(())
              /\ sci' = [s EXCEPT !.pc = "returned"]
              /\ ret' = Ok(Unit)
              /\ stack' = Popped

\* send_chain_information returns r
ChainInformationReturns(s, r) ==
    /\ sci' = [s EXCEPT !.pc = "returned"]
    /\ ret' = r
    /\ stack' = Popped

\* Mutation of FirstJob: the replay starts with the job pushed first.
FirstJobBackwards(jobs) == 1

\* line 188: jobs.into_iter().rev() starts with the job pushed last
FirstJob(jobs) == Len(jobs)

\* Mutation of InactiveRootOutcome: the inactive root is passed over.
InactiveRootIgnored == Ok(Unit)

\* line 171: what the walk returns at an inactive chain that has no parent
InactiveRootOutcome == Err("InactiveChain")

\* Mutation of ParentTarget: the child index itself.
ParentTargetUnchanged(number) == Ok(number)

\* line 180: the target for the parent, number.try_add_one()
ParentTarget(number) == TryAddOne(number)

\* lines 148-186: one iteration of the walk: handle_chain_info_query and the match.
\* History: queries counts the queries of this call, walk names the arm that ended
\* the walk, reported is the next_sequence_number of the active chain.
SendChainInformationQuery ==
    /\ Executing("send_chain_information")
    /\ sci.pc = "query"
    /\ \E a \in Answers :
        LET q == [sci EXCEPT !.queries = @ + 1,
                             !.unchecked_read =
                                @ \/ (IsOk(a) /\ UsedBeforeCheck(QueryResponseUses))]
        IN
        /\ ClientCalled(a)
        /\ IF IsOk(a) /\ a[2].active
           THEN IF ~ResponseAccepted(a[2])
                THEN ChainInformationReturns([q EXCEPT !.walk = "check_failed"],
                                             Err("CheckFailed"))
                ELSE LET jobs == Append(q.jobs, <<q.chain_id, a[2].next_sequence_number,
                                                  q.target, FALSE>>)
                     IN /\ sci' = [q EXCEPT !.jobs = jobs,
                                            !.job = FirstJob(jobs),
                                            !.walk = "active",
                                            !.reported = a[2].next_sequence_number,
                                            !.pc = "read_chain"]
                        /\ ret' = NoRet
                        /\ UNCHANGED stack
           ELSE IF IsOk(a)
           THEN IF ~ResponseAccepted(a[2])
                THEN ChainInformationReturns([q EXCEPT !.walk = "check_failed"],
                                             Err("CheckFailed"))
                ELSE LET parent == Split(q.chain_id) IN
                     IF parent[1] = "None"
                     THEN ChainInformationReturns([q EXCEPT !.walk = "inactive_root"],
                                                  InactiveRootOutcome)
                     ELSE LET pushed == [q EXCEPT
                                           !.jobs = Append(@, <<q.chain_id, 0, q.target, TRUE>>),
                                           !.chain_id = parent[2]]
                              next == ParentTarget(parent[3])
                          IN IF IsErr(next)
                             THEN ChainInformationReturns([pushed EXCEPT !.walk = "overflow"],
                                                          next)
                             ELSE /\ sci' = [pushed EXCEPT !.target = next[2]]
                                  /\ ret' = NoRet
                                  /\ UNCHANGED stack
           ELSE ChainInformationReturns([q EXCEPT !.walk = "query_failed"], a)
    /\ UNCHANGED <<qvars, retries, sc, sbp, rcv, upd>>

\* Mutation of RangeStart: the first certificate of the range is skipped.
RangeStartSkipsOne(job) == JobInitial(job) + 1

\* line 193: the first number of the range of a job
RangeStart(job) == JobInitial(job)

\* line 191: read_chain_or_default for the current job, then the head of the for loop
SendChainInformationReadChain ==
    /\ Executing("send_chain_information")
    /\ sci.pc = "read_chain"
    /\ \E r \in ChainReads :
        IF IsErr(r)
        THEN ChainInformationReturns(sci, r)
        ELSE ReplayFrom([sci EXCEPT !.log_len = r[2], !.number = RangeStart(sci.jobs[sci.job])])
    /\ UNCHANGED <<qvars, retries, sc, sbp, rcv, upd, auth_failed, calls_after_failure>>

\* lines 199-200: read_certificate, then the call of send_certificate(cert, retryable)
SendChainInformationReadCertificate ==
    /\ Executing("send_chain_information")
    /\ sci.pc = "read_cert"
    /\ \E r \in CertificateReads :
        IF IsErr(r)
        THEN ChainInformationReturns(sci, r) /\ sc' = sc
        ELSE LET job == sci.jobs[sci.job] IN
             /\ sc' = scEntry([chain_id |-> JobChain(job), sequence_number |-> sci.number,
                               validated |-> FALSE], JobRetryable(job))
             /\ sci' = [sci EXCEPT !.pc = "sending",
                                    !.sent = Append(@, <<JobChain(job), sci.number>>)]
             /\ stack' = Append(stack, "send_certificate")
             /\ ret' = NoRet
    /\ UNCHANGED <<qvars, retries, sbp, rcv, upd, auth_failed, calls_after_failure>>

\* line 200: send_certificate returned; `?`, then the next number or the next job.
\* History: sent lists the <<chain_id, number>> given to send_certificate by this call,
\* acked counts those for which send_certificate returned Ok.
SendChainInformationAfterSend ==
    /\ Executing("send_chain_information")
    /\ sci.pc = "sending"
    /\ IF IsErr(ret)
       THEN ChainInformationReturns(sci, ret)
       ELSE ReplayFrom([sci EXCEPT !.number = @ + 1, !.acked = @ + 1])
    /\ sc' = scIdle
    /\ UNCHANGED <<qvars, retries, sbp, rcv, upd, auth_failed, calls_after_failure>>

(***************************************************************************)
(* send_chain_information_as_a_receiver                                    *)
(***************************************************************************)

\* lines 212-216: head of the for loop with the locals r, up to the next await.
\* chain.received_index.iter() either is exhausted or yields a (sender_id,
\* sequence_number) whose sender it has not yielded before.
ReceiverFrom(r) ==
    \/ /\ rcv' = [r EXCEPT !.pc = "returned"]
       /\ ret' = Ok(Unit)
       /\ stack' = Popped
       /\ sci' = sciIdle
    \/ /\ Cardinality(r.visited) < MaxSenders
       /\ \E sender_id \in ShallowChainIds \ r.visited, sequence_number \in SeqNums :
            LET next == TryAddOne(sequence_number) IN
            IF IsErr(next)
            THEN /\ rcv' = [r EXCEPT !.pc = "returned"]
                 /\ ret' = next
                 /\ stack' = Popped
                 /\ sci' = sciIdle
            ELSE /\ rcv' = [r EXCEPT !.pc = "syncing", !.visited = @ \cup {sender_id}]
                 /\ sci' = sciEntry(sender_id, next[2])
                 /\ stack' = Append(stack, "send_chain_information")
                 /\ ret' = NoRet

\* line 211: read_chain_or_default, then the head of the for loop
ReceiverReadChain ==
    /\ Executing("send_chain_information_as_a_receiver")
    /\ rcv.pc = "read_chain"
    /\ \/ /\ rcv' = [rcv EXCEPT !.pc = "returned"]
          /\ ret' = Err("StorageError")
          /\ stack' = Popped
          /\ sci' = sciIdle
       \/ ReceiverFrom(rcv)
    /\ UNCHANGED <<qvars, retries, sc, sbp, upd, auth_failed, calls_after_failure>>

\* lines 213-214: send_chain_information returned; `?`, then the next sender
ReceiverAfterSync ==
    /\ Executing("send_chain_information_as_a_receiver")
    /\ rcv.pc = "syncing"
    /\ IF IsErr(ret)
       THEN /\ rcv' = [rcv EXCEPT !.pc = "returned"]
            /\ ret' = ret
            /\ stack' = Popped
            /\ sci' = sciIdle
       ELSE ReceiverFrom(rcv)
    /\ UNCHANGED <<qvars, retries, sc, sbp, upd, auth_failed, calls_after_failure>>

(***************************************************************************)
(* send_chain_update                                                       *)
(***************************************************************************)

\* send_chain_update returns r with the locals u
ChainUpdateReturnsFrom(u, r) ==
    /\ upd' = [u EXCEPT !.pc = "returned"]
    /\ ret' = r
    /\ stack' = Popped

\* send_chain_update returns r
ChainUpdateReturns(r) == ChainUpdateReturnsFrom(upd, r)

\* Mutation of ExtractVote: a missing pending vote is taken for no vote.
ExtractVoteLenient(info) ==
    IF info.pending = "none"
    THEN Ok(NoVote)
    ELSE IF ~VoteCheck(info)
    THEN Err("CheckFailed")
    ELSE Ok(SomeVote(info.pending))

\* lines 260-266 and 272-278: match info.manager.pending()
ExtractVote(info) ==
    IF info.pending = "none"
    THEN Err("ClientErrorWhileProcessingBlockProposal")
    ELSE IF ~VoteCheck(info)
    THEN Err("CheckFailed")
    ELSE Ok(SomeVote(info.pending))

\* Mutation of ReceiverSyncEligible: every failure is retried.
ReceiverSyncAlways(e) == TRUE

\* line 248: the guard of the arm that synchronises as a receiver and retries
ReceiverSyncEligible(e) == IsRetriableValidationError(e)

\* Mutation of FinalizeRetryable: every certificate is retryable.
FinalizeRetryableAlways(target_sequence_number) == TRUE

\* line 270: let retryable = target_sequence_number == SequenceNumber::from(0)
FinalizeRetryable(target_sequence_number) == target_sequence_number = 0

\* What a result of send_block_proposal or send_certificate is recorded as.
ResultTag(r) == IF IsOk(r) THEN "Ok" ELSE r[2]

\* lines 224-240: the target sequence number, then the call of send_chain_information
SendChainUpdateStart ==
    /\ Executing("send_chain_update")
    /\ upd.pc = "start"
    /\ IF upd.action.kind = "FinalizeRequest" /\ ~upd.action.validated
       THEN \* validated_request().unwrap() panics
            /\ upd' = [upd EXCEPT !.pc = "panicked"]
            /\ ret' = Panic
            /\ stack' = <<>>
            /\ sci' = sci
       ELSE /\ upd' = [upd EXCEPT !.pc = "syncing", !.target = upd.action.seq]
            /\ sci' = sciEntry(upd.chain_id, upd.action.seq)
            /\ stack' = Append(stack, "send_chain_information")
            /\ ret' = NoRet
    /\ UNCHANGED <<qvars, retries, sc, sbp, rcv, auth_failed, calls_after_failure>>

\* lines 239-245, 268-271, 280-282: `?` on the synchronisation, then match action.
\* History: proposals, receiver_syncs and certificates count the calls that
\* send_chain_update itself makes of send_block_proposal,
\* send_chain_information_as_a_receiver and send_certificate.
SendChainUpdateAfterSync ==
    /\ Executing("send_chain_update")
    /\ upd.pc = "syncing"
    /\ IF IsErr(ret)
       THEN ChainUpdateReturns(ret) /\ UNCHANGED <<sc, sbp>>
       ELSE IF upd.action.kind \in ProposalKinds
       THEN /\ upd' = [upd EXCEPT !.pc = "proposing", !.proposals = @ + 1]
            /\ sbp' = sbpEntry
            /\ stack' = Append(stack, "send_block_proposal")
            /\ ret' = NoRet
            /\ sc' = sc
       ELSE IF upd.action.kind = "FinalizeRequest"
       THEN /\ upd' = [upd EXCEPT !.pc = "finalizing", !.certificates = @ + 1]
            /\ sc' = scEntry([chain_id |-> upd.chain_id, sequence_number |-> upd.action.seq,
                              validated |-> TRUE], FinalizeRetryable(upd.target))
            /\ stack' = Append(stack, "send_certificate")
            /\ ret' = NoRet
            /\ sbp' = sbp
       ELSE ChainUpdateReturns(Ok(NoVote)) /\ UNCHANGED <<sc, sbp>>
    /\ sci' = sciIdle
    /\ UNCHANGED <<qvars, retries, rcv, auth_failed, calls_after_failure>>

\* lines 245-259: the result of the first send_block_proposal.
\* History: first_result is that result, extracted the pending vote matched on.
SendChainUpdateAfterProposal ==
    /\ Executing("send_chain_update")
    /\ upd.pc = "proposing"
    /\ LET u == [upd EXCEPT !.first_result = ResultTag(ret)] IN
       IF IsOk(ret)
       THEN /\ ChainUpdateReturnsFrom([u EXCEPT !.extracted = ret[2].pending],
                                      ExtractVote(ret[2]))
            /\ VoteExtracted(ret[2])
            /\ rcv' = rcv
       ELSE IF ReceiverSyncEligible(ret[2])
       THEN /\ upd' = [u EXCEPT !.pc = "receiver", !.receiver_syncs = @ + 1]
            /\ rcv' = rcvEntry(upd.chain_id)
            /\ stack' = Append(stack, "send_chain_information_as_a_receiver")
            /\ ret' = NoRet
            /\ UNCHANGED <<auth_failed, calls_after_failure>>
       ELSE /\ ChainUpdateReturnsFrom(u, ret)
            /\ rcv' = rcv
            /\ UNCHANGED <<auth_failed, calls_after_failure>>
    /\ sbp' = sbpIdle
    /\ UNCHANGED <<qvars, retries, sc, sci>>

\* lines 252-254: `?` on the receiver synchronisation, then the second send_block_proposal
SendChainUpdateAfterReceiver ==
    /\ Executing("send_chain_update")
    /\ upd.pc = "receiver"
    /\ IF IsErr(ret)
       THEN ChainUpdateReturns(ret) /\ sbp' = sbp
       ELSE /\ upd' = [upd EXCEPT !.pc = "retrying", !.proposals = @ + 1]
            /\ sbp' = sbpEntry
            /\ stack' = Append(stack, "send_block_proposal")
            /\ ret' = NoRet
    /\ rcv' = rcvIdle
    /\ UNCHANGED <<qvars, retries, sc, sci, auth_failed, calls_after_failure>>

\* lines 254, 260-266: `?` on the second send_block_proposal, then the pending vote.
\* History: second_result is the result of the second send_block_proposal.
SendChainUpdateAfterRetry ==
    /\ Executing("send_chain_update")
    /\ upd.pc = "retrying"
    /\ LET u == [upd EXCEPT !.second_result = ResultTag(ret)] IN
       IF IsErr(ret)
       THEN ChainUpdateReturnsFrom(u, ret) /\ UNCHANGED <<auth_failed, calls_after_failure>>
       ELSE /\ ChainUpdateReturnsFrom([u EXCEPT !.extracted = ret[2].pending],
                                      ExtractVote(ret[2]))
            /\ VoteExtracted(ret[2])
    /\ sbp' = sbpIdle
    /\ UNCHANGED <<qvars, retries, sc, sci, rcv>>

\* lines 271-278: `?` on send_certificate, then the pending vote
SendChainUpdateAfterFinalize ==
    /\ Executing("send_chain_update")
    /\ upd.pc = "finalizing"
    /\ IF IsErr(ret)
       THEN ChainUpdateReturns(ret) /\ UNCHANGED <<auth_failed, calls_after_failure>>
       ELSE /\ ChainUpdateReturnsFrom([upd EXCEPT !.extracted = ret[2].pending],
                                      ExtractVote(ret[2]))
            /\ VoteExtracted(ret[2])
    /\ sc' = scIdle
    /\ UNCHANGED <<qvars, retries, sbp, sci, rcv>>

(***************************************************************************)
(* Specifications                                                          *)
(***************************************************************************)

\* The updater session at rest (used while the broadcaster is studied).
UpdaterIdle ==
    /\ retries = 0
    /\ stack = <<>>
    /\ ret = NoRet
    /\ sc = scIdle /\ sbp = sbpIdle /\ sci = sciIdle /\ rcv = rcvIdle /\ upd = updIdle
    /\ auth_failed = FALSE
    /\ calls_after_failure = 0

\* execute where no assignment of results is studied.
NotAssigned == [n \in ValidatorNames |-> ErrResult("OtherError")]

\* The broadcaster at rest (used while the updater is studied).
BroadcasterIdle ==
    /\ validator_clients = <<>>
    /\ weight = [n \in ValidatorNames |-> 0]
    /\ quorum_threshold = 1
    /\ validity_threshold = 1
    /\ qpc = "idle"
    /\ responses = {}
    /\ invoked = {}
    /\ values = <<>>
    /\ value_score = 0
    /\ error_scores = [e \in Errors |-> 0]
    /\ outcome = Running
    /\ consumed = <<>>
    /\ last_consumed = 0
    /\ execute = NotAssigned

\* One call of a public method of ValidatorUpdater, at its entry.
InitU ==
    /\ BroadcasterIdle
    /\ retries \in 0..MaxRetries
    /\ ret = NoRet
    /\ auth_failed = FALSE
    /\ calls_after_failure = 0
    /\ \/ /\ stack = <<"send_certificate">>
          /\ \E c \in Certificates, retryable \in BOOLEAN :
               c.chain_id \in ShallowChainIds /\ sc = scEntry(c, retryable)
          /\ sbp = sbpIdle /\ sci = sciIdle /\ rcv = rcvIdle /\ upd = updIdle
       \/ /\ stack = <<"send_block_proposal">>
          /\ sbp = sbpEntry
          /\ sc = scIdle /\ sci = sciIdle /\ rcv = rcvIdle /\ upd = updIdle
       \/ /\ stack = <<"send_chain_information">>
          /\ \E c \in ChainIds, t \in SeqNums : sci = sciEntry(c, t)
          /\ sc = scIdle /\ sbp = sbpIdle /\ rcv = rcvIdle /\ upd = updIdle
       \/ /\ stack = <<"send_chain_information_as_a_receiver">>
          /\ \E c \in ShallowChainIds : rcv = rcvEntry(c)
          /\ sc = scIdle /\ sbp = sbpIdle /\ sci = sciIdle /\ upd = updIdle
       \/ /\ stack = <<"send_chain_update">>
          /\ \E c \in ShallowChainIds, a \in CommunicateActions : upd = updEntry(c, a)
          /\ sc = scIdle /\ sbp = sbpIdle /\ sci = sciIdle /\ rcv = rcvIdle

\* communicate_with_quorum at its entry, for a slice of clients and a committee.
InitQ ==
    /\ UpdaterIdle
    /\ validator_clients \in
         {s \in UNION {[1..n -> ValidatorNames] : n \in 0..MaxClients} : IsCanonical(s)}
    \* the code reads the weight of listed names only: the others are left at 0
    /\ weight \in {w \in [ValidatorNames -> 0..MaxWeight] :
                      \A n \in ValidatorNames \ Range(validator_clients) : w[n] = 0}
    /\ quorum_threshold \in 1..MaxThreshold
    /\ validity_threshold \in 1..quorum_threshold
    /\ qpc = "start"
    /\ responses = {}
    /\ invoked = {}
    /\ values = <<>>
    /\ value_score = 0
    /\ error_scores = [e \in Errors |-> 0]
    /\ outcome = Running
    /\ consumed = [i \in DOMAIN validator_clients |-> NotConsumed]
    /\ last_consumed = 0
    /\ execute = NotAssigned

NextQ == Launch \/ HandleCompletion \/ ReturnUndecided \/ StragglerCompletes

SpecQ == InitQ /\ [][NextQ]_vars

\* One call of communicate_with_quorum whose execute gives one result to each
\* validator of the list.
InitA ==
    /\ UpdaterIdle
    /\ validator_clients \in
         {s \in UNION {[1..n -> ValidatorNames] : n \in 0..MaxClients} : IsCanonical(s)}
    /\ weight \in {w \in [ValidatorNames -> 0..MaxWeight] :
                      \A n \in ValidatorNames \ Range(validator_clients) : w[n] = 0}
    /\ quorum_threshold \in 1..MaxThreshold
    /\ validity_threshold \in 1..quorum_threshold
    /\ qpc = "start"
    /\ responses = {}
    /\ invoked = {}
    /\ values = <<>>
    /\ value_score = 0
    /\ error_scores = [e \in Errors |-> 0]
    /\ outcome = Running
    /\ consumed = [i \in DOMAIN validator_clients |-> NotConsumed]
    /\ last_consumed = 0
    \* the result of a validator that is not called is never seen
    /\ execute \in {x \in [ValidatorNames -> Results] :
                      \A n \in ValidatorNames :
                        (n \notin Range(validator_clients) \/ ~Launchable(n)) => x[n] = NotAssigned[n]}

NextA == Launch \/ HandleAssignedCompletion \/ ReturnUndecided \/ StragglerCompletes

SpecA == InitA /\ [][NextA]_vars

NextU ==
    \/ SendCertificateSubmit
    \/ SendCertificateSleep
    \/ SendBlockProposalSubmit
    \/ SendBlockProposalSleep
    \/ SendChainInformationQuery
    \/ SendChainInformationReadChain
    \/ SendChainInformationReadCertificate
    \/ SendChainInformationAfterSend
    \/ ReceiverReadChain
    \/ ReceiverAfterSync
    \/ SendChainUpdateStart
    \/ SendChainUpdateAfterSync
    \/ SendChainUpdateAfterProposal
    \/ SendChainUpdateAfterReceiver
    \/ SendChainUpdateAfterRetry
    \/ SendChainUpdateAfterFinalize

SpecU == InitU /\ [][NextU]_vars

\* One call of send_chain_information, at its entry.
InitI ==
    /\ BroadcasterIdle
    /\ retries \in 0..MaxRetries
    /\ ret = NoRet
    /\ auth_failed = FALSE
    /\ calls_after_failure = 0
    /\ stack = <<"send_chain_information">>
    /\ \E c \in ChainIds, t \in SeqNums : sci = sciEntry(c, t)
    /\ sc = scIdle /\ sbp = sbpIdle /\ rcv = rcvIdle /\ upd = updIdle

\* The steps of send_chain_information and of the send_certificate it calls.
NextI ==
    \/ SendChainInformationQuery
    \/ SendChainInformationReadChain
    \/ SendChainInformationReadCertificate
    \/ SendChainInformationAfterSend
    \/ SendCertificateSubmit
    \/ SendCertificateSleep

\* Every await of the call completes: the validator answers, the storage answers
\* and the sleep of a retry ends.
SpecIFair == InitI /\ [][NextI]_vars /\ WF_vars(NextI)

(***************************************************************************)
(* What the loop has taken from the stream, read back from the history.    *)
(***************************************************************************)
ConsumedPositions == {i \in DOMAIN consumed : consumed[i] # NotConsumed}

PositionWeight == [i \in DOMAIN validator_clients |-> weight[validator_clients[i]]]

\* Weight of the consumed calls that returned the success value v.
ValueWeight(v) == SumOver({i \in ConsumedPositions : consumed[i] = OkResult(v)}, PositionWeight)

\* Weight of the consumed calls that returned any success value.
SuccessWeight ==
    SumOver({i \in ConsumedPositions : consumed[i][1] = "Ok"}, PositionWeight)

\* Weight of the consumed calls that returned the error e.
ErrorWeight(e) == SumOver({i \in ConsumedPositions : consumed[i] = ErrResult(e)}, PositionWeight)

ReturnedOk == qpc = "done" /\ outcome[1] = "Ok"

ReturnedErrSome == qpc = "done" /\ outcome[1] = "ErrSome"

ReturnedErrNone == qpc = "done" /\ outcome = ReturnErrNone

(***************************************************************************)
(* Properties of communicate_with_quorum.                                  *)
(***************************************************************************)

C2_ErrSomeNeedsValidity ==
    /\ \A e \in Errors : error_scores[e] = ErrorWeight(e)
    /\ qpc = "loop" => \A e \in Errors : ErrorWeight(e) < validity_threshold
    /\ ReturnedErrSome =>
         LET e == outcome[2] IN
         /\ ErrorWeight(e) >= validity_threshold
         /\ consumed[last_consumed] = ErrResult(e)
         /\ ErrorWeight(e) - PositionWeight[last_consumed] < validity_threshold

\* C2 witness: three validators of weight 1, quorum 3, validity 2; the two results
\* that arrived are InactiveChain errors and Err(Some(InactiveChain)) is returned
\* with the third call outstanding.
C2_Witness ==
    /\ ReturnedErrSome
    /\ outcome = ReturnErrSome("InactiveChain")
    /\ Len(validator_clients) = 3
    /\ \A i \in DOMAIN validator_clients : PositionWeight[i] = 1
    /\ quorum_threshold = 3 /\ validity_threshold = 2
    /\ Cardinality(ConsumedPositions) = 2
    /\ Cardinality(responses) = 1

\* C3: the action is never invoked for a validator of weight 0, and nothing of a
\* zero-weight validator is part of the decision: no consumed result, no value of
\* the value list, no share of the success weight or of an error weight.
C3_ZeroWeightSkipped ==
    /\ \A i \in invoked : PositionWeight[i] > 0
    /\ \A i \in ConsumedPositions : PositionWeight[i] > 0
    /\ Len(values) =
         Cardinality({i \in ConsumedPositions : consumed[i][1] = "Ok" /\ PositionWeight[i] > 0})
    /\ value_score =
         SumOver({i \in ConsumedPositions : consumed[i][1] = "Ok" /\ PositionWeight[i] > 0},
                 PositionWeight)

\* C3 witness: a decision was returned for a slice that holds a zero-weight validator.
C3_Witness ==
    /\ qpc = "done"
    /\ outcome[1] \in {"Ok", "ErrSome"}
    /\ \E i \in DOMAIN validator_clients : PositionWeight[i] = 0
    /\ \E i \in DOMAIN validator_clients : PositionWeight[i] > 0

\* C4: once the function has returned, no further result is consumed and nothing
\* changes the returned value list or error; the value list returned is exactly the
\* values consumed up to the decision.
C4_EarlyExit ==
    /\ [][qpc = "done" =>
            /\ outcome' = outcome
            /\ consumed' = consumed
            /\ values' = values
            /\ value_score' = value_score
            /\ error_scores' = error_scores]_vars
    /\ [](ReturnedOk =>
            /\ outcome = ReturnOk(values)
            /\ Len(values) = Cardinality({i \in ConsumedPositions : consumed[i][1] = "Ok"}))

\* C4 witness: three validators of weight 1, quorum 2; two successes gave Ok with
\* those two values, and the third call completed after the return, unconsumed.
C4_Witness ==
    /\ ReturnedOk
    /\ Len(validator_clients) = 3
    /\ \A i \in DOMAIN validator_clients : PositionWeight[i] = 1
    /\ quorum_threshold = 2
    /\ Len(outcome[2]) = 2
    /\ Cardinality(ConsumedPositions) = 2
    /\ responses = {}

\* C5: Err(None) is returned exactly when every launched call has been consumed and
\* neither the success weight reached quorum_threshold nor the weight of any one
\* error reached validity_threshold; the function returns one of Ok(values),
\* Err(Some(e)) and Err(None), and Err(None) is none of the other two.
C5_UndecidedExactly ==
    LET AllConsumed == ConsumedPositions = invoked
        NoThreshold == /\ SuccessWeight < quorum_threshold
                       /\ \A e \in Errors : ErrorWeight(e) < validity_threshold
    IN
    /\ qpc = "done" => outcome[1] \in {"Ok", "ErrSome", "ErrNone"}
    /\ qpc # "done" => outcome = Running
    /\ ReturnedErrNone => AllConsumed /\ NoThreshold
    /\ (qpc = "done" /\ AllConsumed /\ NoThreshold) => outcome = ReturnErrNone
    /\ ReturnedErrNone => \A e \in Errors : outcome # ReturnErrSome(e)

\* C5 witness: Err(None) returned after calls that gave successes and errors.
C5_Witness ==
    /\ ReturnedErrNone
    /\ \E i \in ConsumedPositions : consumed[i][1] = "Ok"
    /\ \E i \in ConsumedPositions : consumed[i][1] = "Err"

\* C6: the weight of one validator identity is added to a score at most once per
\* call of communicate_with_quorum, whatever the slice of clients.
C6_WeightOncePerValidator ==
    \A n \in ValidatorNames :
        Cardinality({i \in ConsumedPositions : validator_clients[i] = n}) <= 1

(***************************************************************************)
(* Properties of send_certificate and send_block_proposal.                 *)
(***************************************************************************)

AllInactive(answers) == \A k \in DOMAIN answers : answers[k] = "InactiveChain"

LastAnswer(answers) == answers[Len(answers)]

\* C7: when every answer of the validator is InactiveChain, send_certificate with
\* retryable = true returns after exactly retries + 1 submissions, having slept
\* between them (retries sleeps), and with retryable = false after exactly one
\* submission; either way it fails with InactiveChain.
C7_CertificateRetryBound ==
    /\ Len(sc.answers) <= retries + 1
    /\ (sc.pc = "returned" /\ AllInactive(sc.answers)) =>
          /\ IsErrOf(ret, "InactiveChain")
          /\ Len(sc.answers) = (IF sc.retryable THEN retries + 1 ELSE 1)
          /\ sc.sleeps = Len(sc.answers) - 1

\* C7 witness: a retryable send_certificate called directly, retry limit 2, failed with
\* InactiveChain after three submissions.
C7_Witness ==
    /\ stack = <<>>
    /\ sc.pc = "returned"
    /\ sc.retryable
    /\ retries = 2
    /\ AllInactive(sc.answers)
    /\ Len(sc.answers) = 3
    /\ IsErrOf(ret, "InactiveChain")

\* C8: when every answer of the validator is InactiveChain, send_block_proposal
\* returns after exactly retries + 1 submissions and fails with InactiveChain,
\* whoever called it and whatever the action (no flag gates the retry).
C8_ProposalRetryBound ==
    /\ Len(sbp.answers) <= retries + 1
    /\ (sbp.pc = "returned" /\ AllInactive(sbp.answers)) =>
          /\ IsErrOf(ret, "InactiveChain")
          /\ Len(sbp.answers) = retries + 1
          /\ sbp.sleeps = retries

\* C8 witness: send_block_proposal called by send_chain_update, retry limit 2, failed
\* with InactiveChain after three submissions.
C8_Witness ==
    /\ stack = <<"send_chain_update">>
    /\ sbp.pc = "returned"
    /\ retries = 2
    /\ AllInactive(sbp.answers)
    /\ Len(sbp.answers) = 3
    /\ IsErrOf(ret, "InactiveChain")

\* What C9 says of one submission loop with the locals l.
TerminalErrors(l) ==
    \* a submission follows InactiveChain answers only
    /\ \A k \in 1..(Len(l.answers) - 1) : l.answers[k] = "InactiveChain"
    \* a sleep follows an InactiveChain answer only
    /\ l.pc = "sleep" => LastAnswer(l.answers) = "InactiveChain"
    \* another error is returned as it is, at the attempt where it occurred
    /\ (l.pc = "returned" /\ LastAnswer(l.answers) \in ValidatorErrors \ {"InactiveChain"}) =>
          /\ IsErrOf(ret, LastAnswer(l.answers))
          /\ l.sleeps = Len(l.answers) - 1

\* C9: in send_certificate and send_block_proposal an error of the validator other
\* than InactiveChain is returned at the attempt where it occurs, without sleep and
\* without further submission, whatever the retryable flag and the retries left.
C9_OtherErrorsTerminal == TerminalErrors(sc) /\ TerminalErrors(sbp)

\* C9 witness: a retryable send_certificate with retries left that returned
\* OtherError on its second submission.
C9_Witness ==
    /\ sc.pc = "returned"
    /\ sc.retryable
    /\ sc.count < retries
    /\ Len(sc.answers) = 2
    /\ LastAnswer(sc.answers) = "OtherError"
    /\ IsErrOf(ret, "OtherError")

(***************************************************************************)
(* Properties of the authentication of responses and votes.                *)
(***************************************************************************)

\* C10: once a response or a pending vote has failed check(self.name), the call
\* returns an error (never a chain info or a vote), up to the method called on the
\* updater, and no further call is made to the validator.
C10_AuthenticationFailureFatal ==
    auth_failed =>
        /\ IsErrOf(ret, "CheckFailed")
        /\ calls_after_failure = 0

\* C10 witness: send_chain_update returned the error of a failed check.
C10_Witness ==
    /\ auth_failed
    /\ stack = <<>>
    /\ upd.pc = "returned"
    /\ IsErrOf(ret, "CheckFailed")

(***************************************************************************)
(* C11: check before use                                                   *)
(***************************************************************************)

\* C11: no function uses a field of a response, or lets one decide its control
\* flow, before check has authenticated the response; in particular
\* send_chain_information does not consult the activation state of the manager
\* before check.
C11_CheckBeforeUse ==
    /\ ~sc.unchecked_read
    /\ ~sbp.unchecked_read
    /\ ~sci.unchecked_read

\* The part of C11 that holds: the two submission loops check before they use.
C11_SubmitChecksFirst == ~sc.unchecked_read /\ ~sbp.unchecked_read

(***************************************************************************)
(* Properties of the lineage walk and of the replay of its jobs.           *)
(***************************************************************************)

\* The <<chain_id, number>> of one job, in the order of its for loop.
JobSends(job) ==
    [i \in 1..(IF JobTarget(job) > JobInitial(job)
                THEN JobTarget(job) - JobInitial(job) ELSE 0)
        |-> <<JobChain(job), JobInitial(job) + i - 1>>]

\* The <<chain_id, number>> of a list of jobs taken last job first.
RECURSIVE ReplayOrder(_)
ReplayOrder(jobs) ==
    IF jobs = <<>> THEN <<>> ELSE ReplayOrder(Tail(jobs)) \o JobSends(Head(jobs))

IsPrefix(p, q) == Len(p) <= Len(q) /\ \A i \in DOMAIN p : p[i] = q[i]

\* The parent of a chain that has one, and its index in the parent.
ParentOf(c) == Split(c)[2]

IndexOf(c) == Split(c)[3]

\* The scenario of C12: the call was made for a chain B whose parent A has a
\* parent, the validator answered inactive for B and for A and active for the
\* parent of A, with a next_sequence_number that leaves nothing to send for it.
LineageScenario ==
    /\ Len(sci.arg_chain_id) >= 2
    /\ sci.walk = "active"
    /\ sci.chain_id = ParentOf(ParentOf(sci.arg_chain_id))
    /\ sci.reported >= IndexOf(ParentOf(sci.arg_chain_id)) + 1

\* C12: in the scenario root -> A -> B (B and A inactive, root active and far
\* enough), send_chain_information(B, n) records exactly two jobs that replay a
\* chain from sequence number 0, the one of B and the one of A (the third job, of
\* root, has nothing to send), and submits every certificate of A before any of B:
\* a call that returns Ok has submitted A's [0, index of B + 1) and then B's [0, n).
C12_LineageWalk ==
    LineageScenario =>
        LET B == sci.arg_chain_id
            A == ParentOf(B)
            replays == {k \in DOMAIN sci.jobs : JobRetryable(sci.jobs[k])}
        IN /\ Cardinality(replays) = 2
           /\ sci.jobs[1] = <<B, 0, sci.arg_target, TRUE>>
           /\ sci.jobs[2] = <<A, 0, IndexOf(B) + 1, TRUE>>
           /\ \A i \in DOMAIN sci.sent : sci.sent[i][1] \in {A, B}
           /\ \A i, j \in DOMAIN sci.sent :
                (i < j /\ sci.sent[j][1] = A) => sci.sent[i][1] = A
           /\ (sci.pc = "returned" /\ IsOk(ret)) =>
                sci.sent = JobSends(<<A, 0, IndexOf(B) + 1, TRUE>>)
                           \o JobSends(<<B, 0, sci.arg_target, TRUE>>)

\* C12 witness: the scenario, returned Ok after certificates of A and of B.
C12_Witness ==
    /\ LineageScenario
    /\ sci.pc = "returned"
    /\ IsOk(ret)
    /\ sci.arg_target >= 1
    /\ Len(sci.sent) >= 3

\* C13: the jobs are processed last discovered first, and the certificates of a
\* job are submitted in increasing order from initial up to target, none skipped
\* and none repeated: what was submitted is at every moment a prefix of that
\* order, and all of it when the call returns Ok. The certificate after number i
\* is submitted only when send_certificate returned Ok for i.
C13_SubmissionOrder ==
    /\ sci.walk # "active" => sci.sent = <<>>
    /\ sci.walk = "active" => IsPrefix(sci.sent, ReplayOrder(sci.jobs))
    /\ (sci.pc = "returned" /\ IsOk(ret)) => sci.sent = ReplayOrder(sci.jobs)
    /\ \A i, j \in DOMAIN sci.sent : i < j =>
          \/ Len(sci.sent[i][1]) < Len(sci.sent[j][1])
          \/ sci.sent[i][1] = sci.sent[j][1] /\ sci.sent[j][2] = sci.sent[i][2] + (j - i)
    /\ sci.acked <= Len(sci.sent)
    /\ Len(sci.sent) <= sci.acked + 1
    /\ Len(sci.sent) = sci.acked + 1 => sci.pc \in {"sending", "returned"}

\* C13 witness: a call over two chains returned Ok after three certificates.
C13_Witness ==
    /\ sci.pc = "returned"
    /\ IsOk(ret)
    /\ Len(sci.jobs) >= 2
    /\ Len(sci.sent) >= 3
    /\ sci.sent[1][1] # sci.sent[3][1]

\* C14: when the walk reaches a chain that the validator reports inactive and that
\* has no parent, the call returns the error InactiveChain and has submitted no
\* certificate: the jobs recorded on the way are dropped.
C14_InactiveRootFails ==
    sci.walk = "inactive_root" =>
        /\ sci.pc = "returned"
        /\ IsErrOf(ret, "InactiveChain")
        /\ Split(sci.chain_id)[1] = "None"
        /\ sci.sent = <<>>
        /\ sc = scIdle

\* C14 witness: the walk went up from a child to its parentless parent.
C14_Witness ==
    /\ sci.walk = "inactive_root"
    /\ Len(sci.jobs) >= 1
    /\ IsErrOf(ret, "InactiveChain")

(***************************************************************************)
(* Properties of send_chain_update.                                        *)
(***************************************************************************)

IsFailure(tag) == tag \notin {"none", "Ok"}

\* C15: in send_chain_update with a proposal, a first send_block_proposal that
\* fails with a retriable validation error is followed by one synchronisation as a
\* receiver and then by exactly one more send_block_proposal, whose failure is
\* returned even when it is retriable again; a first failure that is not retriable
\* is returned at once, with no synchronisation as a receiver and no second send.
C15_ProposalRetriedOnce ==
    /\ upd.proposals <= 2
    /\ upd.receiver_syncs <= 1
    /\ upd.receiver_syncs = 1 => IsRetriableValidationError(upd.first_result)
    /\ upd.proposals = 2 => upd.receiver_syncs = 1
    /\ (IsFailure(upd.first_result) /\ ~IsRetriableValidationError(upd.first_result)) =>
          /\ upd.pc = "returned"
          /\ ret = Err(upd.first_result)
          /\ upd.proposals = 1
          /\ upd.receiver_syncs = 0
    /\ IsRetriableValidationError(upd.first_result) =>
          /\ upd.receiver_syncs = 1
          /\ upd.pc \in {"receiver", "retrying", "returned"}
          /\ (upd.pc = "returned" /\ upd.proposals = 1) => IsErr(ret)
    /\ IsFailure(upd.second_result) =>
          /\ upd.pc = "returned"
          /\ ret = Err(upd.second_result)
          /\ upd.proposals = 2

\* C15 witness: the second send_block_proposal failed with a retriable validation
\* error again, and that error was returned.
C15_Witness ==
    /\ upd.pc = "returned"
    /\ IsRetriableValidationError(upd.first_result)
    /\ IsRetriableValidationError(upd.second_result)
    /\ upd.proposals = 2
    /\ upd.receiver_syncs = 1
    /\ IsErrOf(ret, "RetriableValidationError")

\* C16: for FinalizeRequest, send_chain_update calls send_certificate with
\* retryable true exactly when the target sequence number is 0: answered
\* InactiveChain every time, the certificate is submitted retries + 1 times for
\* target 0 and once for any other target.
C16_FinalizeRetryableAtZero ==
    upd.pc = "finalizing" =>
        /\ upd.action.kind = "FinalizeRequest"
        /\ sc.retryable <=> (upd.action.seq = 0)
        /\ (sc.pc = "returned" /\ AllInactive(sc.answers)) =>
              Len(sc.answers) = (IF upd.action.seq = 0 THEN retries + 1 ELSE 1)

\* C16 witness: a FinalizeRequest for sequence number 0 whose certificate was
\* submitted more than once.
C16_Witness ==
    /\ upd.pc = "finalizing"
    /\ upd.action.seq = 0
    /\ sc.pc = "returned"
    /\ AllInactive(sc.answers)
    /\ Len(sc.answers) >= 2

\* C17: send_chain_update returns Ok(None) exactly when it succeeds on an
\* AdvanceToNextSequenceNumber action, for which it sends no proposal and no
\* certificate of its own; a success on a proposal or a FinalizeRequest carries a
\* vote that passed check, and a submission that succeeded with no pending vote
\* makes the call fail with ClientErrorWhileProcessingBlockProposal.
C17_VoteOrNone ==
    /\ (upd.pc = "returned" /\ IsOk(ret)) =>
          /\ (ret[2] = NoVote) <=> (upd.action.kind = "AdvanceToNextSequenceNumber")
          /\ upd.action.kind # "AdvanceToNextSequenceNumber" =>
                ret[2] = SomeVote("vote_ok") /\ upd.extracted = "vote_ok"
    /\ (upd.pc # "idle" /\ upd.action.kind = "AdvanceToNextSequenceNumber") =>
          upd.proposals = 0 /\ upd.certificates = 0 /\ upd.receiver_syncs = 0
    /\ upd.extracted = "none" =>
          /\ upd.pc = "returned"
          /\ IsErrOf(ret, "ClientErrorWhileProcessingBlockProposal")

\* C17 witness: a FinalizeRequest whose certificate was accepted by a validator
\* that has no pending vote.
C17_Witness ==
    /\ upd.pc = "returned"
    /\ upd.action.kind = "FinalizeRequest"
    /\ upd.extracted = "none"
    /\ IsErrOf(ret, "ClientErrorWhileProcessingBlockProposal")

\* C17, the other case: an AdvanceToNextSequenceNumber returned Ok(None).
C17_AdvanceReturnsNone ==
    /\ upd.pc = "returned"
    /\ upd.action.kind = "AdvanceToNextSequenceNumber"
    /\ ret = Ok(NoVote)

(***************************************************************************)
(* Properties of the jobs of send_chain_information and of its termination *)
(***************************************************************************)

\* The chain k steps above c in its lineage.
RECURSIVE AncestorOf(_, _)
AncestorOf(c, k) == IF k = 0 THEN c ELSE AncestorOf(ParentOf(c), k - 1)

\* The target that the walk of a call has when it queries its k-th chain.
WalkTarget(k) ==
    IF k = 1 THEN sci.arg_target ELSE IndexOf(AncestorOf(sci.arg_chain_id, k - 2)) + 1

\* C18: the walk records for a chain found inactive the job (chain, 0, current
\* target, true) and goes on with its parent and the target child index + 1,
\* failing when that addition overflows; for a chain found active it records
\* (chain, reported next_sequence_number, current target, false) and stops, and
\* no certificate of that chain is submitted when the reported number is not below
\* the target.
C18_JobConstruction ==
    /\ \A k \in DOMAIN sci.jobs :
          LET job == sci.jobs[k] IN
          /\ JobChain(job) = AncestorOf(sci.arg_chain_id, k - 1)
          /\ JobTarget(job) = WalkTarget(k)
          /\ JobRetryable(job) => JobInitial(job) = 0
          /\ k < Len(sci.jobs) => JobRetryable(job)
          /\ ~JobRetryable(job) =>
                /\ sci.walk = "active"
                /\ JobInitial(job) = sci.reported
                /\ sci.chain_id = JobChain(job)
    /\ sci.walk = "walking" =>
          /\ sci.pc = "query"
          /\ sci.queries = Len(sci.jobs)
          /\ sci.chain_id = AncestorOf(sci.arg_chain_id, Len(sci.jobs))
          /\ sci.target = WalkTarget(Len(sci.jobs) + 1)
    /\ sci.walk = "active" =>
          /\ sci.pc # "query"
          /\ sci.queries = Len(sci.jobs)
          /\ ~JobRetryable(sci.jobs[Len(sci.jobs)])
          /\ sci.reported >= sci.target =>
                \A i \in DOMAIN sci.sent : sci.sent[i][1] # sci.chain_id
    /\ sci.walk = "overflow" =>
          /\ sci.pc = "returned"
          /\ IsErr(TryAddOne(IndexOf(JobChain(sci.jobs[Len(sci.jobs)]))))
          /\ IsErrOf(ret, "SequenceOverflow")
          /\ sci.sent = <<>>

\* C18 witness: the walk found a chain inactive and its parent active and far
\* enough; the call returned Ok after certificates of the child only.
C18_Witness ==
    /\ sci.walk = "active"
    /\ Len(sci.jobs) = 2
    /\ sci.reported >= sci.target
    /\ sci.pc = "returned"
    /\ IsOk(ret)
    /\ Len(sci.sent) >= 1

\* C18, the overflow: the walk stopped on a child index that has no successor.
C18_OverflowReached ==
    /\ sci.walk = "overflow"
    /\ IsErrOf(ret, "SequenceOverflow")

\* The number of certificates in the ranges of a list of jobs.
RECURSIVE JobsGap(_)
JobsGap(jobs) ==
    IF jobs = <<>> THEN 0 ELSE Len(JobSends(Head(jobs))) + JobsGap(Tail(jobs))

\* The bounds of C19 on one call of send_chain_information.
WalkAndReplayBounded ==
    /\ sci.queries <= Len(sci.arg_chain_id) + 1
    /\ Len(sci.sent) <= JobsGap(sci.jobs)
    /\ Len(sc.answers) <= retries + 1

\* C19: when every call to the validator and to the storage returns, the call
\* returns: it makes at most one query per chain of the lineage, the depth of the
\* requested chain plus one, submits at most as many certificates as the ranges
\* of its jobs hold, and each of them at most retries + 1 times.
C19_Terminates == <>(stack = <<>>) /\ []WalkAndReplayBounded

\* C19 witness: a call for a chain of depth 2 that made three queries and
\* returned after three certificates, one of them submitted twice.
C19_Witness ==
    /\ stack = <<>>
    /\ sci.pc = "returned"
    /\ Len(sci.arg_chain_id) = 2
    /\ sci.queries = 3
    /\ Len(sci.sent) >= 3

(***************************************************************************)
(* Independence of the order of arrival.                                   *)
(***************************************************************************)

\* Weight of the committee.
TotalWeight == SumOver(ValidatorNames, weight)

\* Weight that the calls launched add for a success, and for the error e, once
\* all of them have completed with the result of execute.
AssignedSuccessWeight ==
    SumOver({i \in invoked : execute[validator_clients[i]][1] = "Ok"}, PositionWeight)

AssignedErrorWeight(e) ==
    SumOver({i \in invoked : execute[validator_clients[i]] = ErrResult(e)}, PositionWeight)

\* The kind of outcome of the arrival order that yields every success first when
\* the successes reach the quorum, and every result of one error first otherwise.
KindOfAssignment ==
    IF QuorumReached(AssignedSuccessWeight) THEN "Ok"
    ELSE IF \E e \in Errors : ValidityReached(AssignedErrorWeight(e)) THEN "ErrSome"
    ELSE "ErrNone"

\* C20: with one result assigned to each validator and quorum_threshold +
\* validity_threshold above the total weight, the kind of outcome (Ok, Err(Some),
\* Err(None)) is the same for every order of arrival: every order returns the
\* kind of the order described by KindOfAssignment.
C20_KindIndependentOfOrder ==
    (qpc = "done" /\ quorum_threshold + validity_threshold > TotalWeight) =>
        outcome[1] = KindOfAssignment

\* The part of C20 that holds: lists that name every validator at most once.
C20_KindIndependentForDistinctNames ==
    (/\ qpc = "done"
     /\ quorum_threshold + validity_threshold > TotalWeight
     /\ \A i, j \in DOMAIN validator_clients :
           validator_clients[i] = validator_clients[j] => i = j) =>
        outcome[1] = KindOfAssignment

\* A state of the part that holds: two validators with different results, decided.
C20_DistinctNamesReached ==
    /\ qpc = "done"
    /\ quorum_threshold + validity_threshold > TotalWeight
    /\ Len(validator_clients) = 3
    /\ \A i, j \in DOMAIN validator_clients :
          validator_clients[i] = validator_clients[j] => i = j
    /\ \E i, j \in invoked : execute[validator_clients[i]][1] # execute[validator_clients[j]][1]
    /\ outcome[1] = "ErrSome"

====
